---- MODULE Spec2Model ----
(***************************************************************************)
(* pybold: the alternating blind-deconvolution drivers of                  *)
(* pybold/bold_signal.py (deconvolution, blind_deconvolution, bd) as a     *)
(* state machine.                                                          *)
(*                                                                         *)
(* The drivers are sequential numpy programs.  A run is modelled by a      *)
(* record (its local variables plus a program position pc); the solver     *)
(* nesterov_forward_backward and scipy's fmin_l_bfgs_b are black boxes     *)
(* whose answers are drawn from small sets.  Signals have length N = 2,    *)
(* numbers are exact rationals extended with the IEEE-754 values the code  *)
(* can produce (nan, +-inf) and with the two magnitude classes that the    *)
(* additive constant 1.0e-30 introduces.                                   *)
(*                                                                         *)
(* Two runs are stepped side by side on the same arguments and the same    *)
(* black-box answers: `run` and a reference run `ref` that is silent       *)
(* (verbose = 0), has no ground truth and does not plot.                   *)
(***************************************************************************)
EXTENDS Integers, Sequences, FiniteSets, TLC

VARIABLES args, run, ref

vars == <<args, run, ref>>

-----------------------------------------------------------------------------
(* Numbers.  A float is [k, n, d]:                                         *)
(*   k = "fin"  : the rational n/d (d > 0, lowest terms)                   *)
(*   k = "tiny" : magnitude of 1.0e-30, sign n                             *)
(*   k = "huge" : magnitude of 1.0e+30, sign n                             *)
(*   k = "inf"  : infinity, sign n                                         *)
(*   k = "nan"  : not a number                                             *)

Abs(i) == IF i < 0 THEN -i ELSE i

Sign(i) == IF i < 0 THEN -1 ELSE IF i > 0 THEN 1 ELSE 0

RECURSIVE GCD(_, _)
GCD(a, b) == IF b = 0 THEN a ELSE GCD(b, a % b)

Frac(n, d) ==
    LET s == IF d < 0 THEN -1 ELSE 1
        g == GCD(Abs(n), Abs(d))
    IN  [k |-> "fin", n |-> (s * n) \div g, d |-> Abs(d) \div g]

Int2Num(i) == [k |-> "fin", n |-> i, d |-> 1]

NaN == [k |-> "nan", n |-> 0, d |-> 1]

Inf(s) == [k |-> "inf", n |-> s, d |-> 1]

Tiny(s) == [k |-> "tiny", n |-> s, d |-> 1]

Huge(s) == [k |-> "huge", n |-> s, d |-> 1]

Zero == Int2Num(0)

One == Int2Num(1)

IsFinite(x) == x.k \in {"fin", "tiny", "huge"}

IsZero(x) == x.k = "fin" /\ x.n = 0

SignOf(x) == Sign(x.n)

\* position of x on the extended real line, up to the value of a "fin"
Ord(x) ==
    CASE x.k = "inf"  -> 4 * x.n
      [] x.k = "huge" -> 3 * x.n
      [] x.k = "fin"  -> 2 * Sign(x.n)
      [] x.k = "tiny" -> x.n
      [] OTHER        -> 0

\* x < y as IEEE-754 decides it: false as soon as one side is nan
Less(x, y) ==
    /\ x.k # "nan"
    /\ y.k # "nan"
    /\ \/ Ord(x) < Ord(y)
       \/ /\ x.k = "fin"
          /\ y.k = "fin"
          /\ x.n * y.d < y.n * x.d

NumNeg(x) == [x EXCEPT !.n = -x.n]

NumAbs(x) == [x EXCEPT !.n = Abs(x.n)]

NumAdd(x, y) ==
    CASE x.k = "nan" \/ y.k = "nan" -> NaN
      [] x.k = "inf" /\ y.k = "inf" -> IF x.n = y.n THEN x ELSE NaN
      [] x.k = "inf" -> x
      [] y.k = "inf" -> y
      [] x.k = "huge" /\ y.k = "huge" -> IF x.n = y.n THEN x ELSE Zero
      [] x.k = "huge" -> x
      [] y.k = "huge" -> y
      [] x.k = "fin" /\ y.k = "fin" -> Frac(x.n * y.d + y.n * x.d, x.d * y.d)
      [] x.k = "fin" -> IF x.n = 0 THEN y ELSE x
      [] y.k = "fin" -> IF y.n = 0 THEN x ELSE y
      [] OTHER -> IF x.n = y.n THEN x ELSE Zero

NumSub(x, y) == NumAdd(x, NumNeg(y))

NumMul(x, y) ==
    CASE x.k = "nan" \/ y.k = "nan" -> NaN
      [] IsZero(x) \/ IsZero(y) ->
            IF x.k = "inf" \/ y.k = "inf" THEN NaN ELSE Zero
      [] x.k = "inf" \/ y.k = "inf" -> Inf(SignOf(x) * SignOf(y))
      [] x.k = "fin" /\ y.k = "fin" -> Frac(x.n * y.n, x.d * y.d)
      [] x.k = "huge" /\ y.k = "tiny" -> Int2Num(SignOf(x) * SignOf(y))
      [] x.k = "tiny" /\ y.k = "huge" -> Int2Num(SignOf(x) * SignOf(y))
      [] x.k = "huge" \/ y.k = "huge" -> Huge(SignOf(x) * SignOf(y))
      [] OTHER -> Tiny(SignOf(x) * SignOf(y))

\* numpy float64 division: x/0 is +-inf (nan for 0/0), never an exception
NumDiv(x, y) ==
    CASE x.k = "nan" \/ y.k = "nan" -> NaN
      [] IsZero(y) -> IF IsZero(x) THEN NaN ELSE Inf(SignOf(x))
      [] y.k = "inf" -> IF x.k = "inf" THEN NaN ELSE Zero
      [] x.k = "inf" -> Inf(SignOf(x) * SignOf(y))
      [] IsZero(x) -> Zero
      [] x.k = "fin" /\ y.k = "fin" -> Frac(x.n * y.d, x.d * y.n)
      [] x.k = y.k -> Int2Num(SignOf(x) * SignOf(y))
      [] y.k = "tiny" -> Huge(SignOf(x) * SignOf(y))
      [] y.k = "huge" -> Tiny(SignOf(x) * SignOf(y))
      [] OTHER -> [x EXCEPT !.n = SignOf(x) * SignOf(y)]

RECURSIVE NumSum(_)
NumSum(s) == IF s = <<>> THEN Zero ELSE NumAdd(Head(s), NumSum(Tail(s)))

\* np.mean of a list: nan for the empty list (numpy warns, it does not raise)
Mean(s) == IF s = <<>> THEN NaN ELSE NumDiv(NumSum(s), Int2Num(Len(s)))

-----------------------------------------------------------------------------
(* Signals and the linear operators of pybold/linear.py and                *)
(* pybold/gradient.py, over integer vectors of length N.                   *)

RECURSIVE SeqSum(_)
SeqSum(s) == IF s = <<>> THEN 0 ELSE Head(s) + SeqSum(Tail(s))

Zeros(n) == [i \in 1..n |-> 0]

\* DiscretInteg().op : the inclusive running sum
Integ(x) == [i \in 1..Len(x) |-> SeqSum(SubSeq(x, 1, i))]

\* Conv(h, N).op : linear convolution by h, truncated to the first N samples
Conv(h, z) ==
    [i \in 1..Len(z) |->
        SeqSum([k \in 1..Len(h) |-> IF i - k + 1 >= 1 THEN h[k] * z[i - k + 1] ELSE 0])]

\* np.sum(np.square(u - v))
SumSq(u, v) == SeqSum([i \in 1..Len(u) |-> (u[i] - v[i]) * (u[i] - v[i])])

\* np.sum(np.abs(x))
L1(x) == SeqSum([i \in 1..Len(x) |-> Abs(x[i])])

\* grad.residual(x) for H = ConvAndLinear(Integ, hrf): sum((H x - y)^2)
Residual(hrf, x, y) == SumSq(Conv(hrf, Integ(x)), y)

\* s[:-k] and s[-k:] of Python, for k >= 0 (-0 is 0: s[:-0] is empty, s[-0:] is s)
SliceOld(s, k) == IF k = 0 THEN <<>> ELSE SubSeq(s, 1, Len(s) - k)

SliceNew(s, k) ==
    IF k = 0 \/ k >= Len(s) THEN s ELSE SubSeq(s, Len(s) - k + 1, Len(s))

-----------------------------------------------------------------------------
(* The kernel model.  MIN_DELTA and MAX_DELTA are in tenths.               *)

MIN_DELTA == 5

MAX_DELTA == 20

\* hrf_func(params, *hrf_cst_params)[0] : the kernel of a shape parameter
HrfFunc(p) ==
    IF p >= MAX_DELTA THEN <<2, 0>> ELSE IF p > 12 THEN <<2, 1>> ELSE <<1, 1>>

NoBounds == [none |-> TRUE, lo |-> 0, hi |-> 0]

\* bounds = [(MIN_DELTA + 1.0e-1, MAX_DELTA - 1.0e-1)]
DefaultBounds == [none |-> FALSE, lo |-> MIN_DELTA + 1, hi |-> MAX_DELTA - 1]

-----------------------------------------------------------------------------
(* The black boxes.                                                        *)

\* what nesterov_forward_backward may return: an innovation signal
Xs == {<<0, 0>>, <<1, 0>>, <<2, -1>>}

\* what fmin_l_bfgs_b may return for the shape parameter: a point of the
\* box when there is one, any candidate otherwise
FitResults(bounds) ==
    IF bounds.none THEN {MIN_DELTA + 1, MAX_DELTA + 1}
    ELSE {p \in {MIN_DELTA + 1, MAX_DELTA - 1, MAX_DELTA + 1} :
            bounds.lo <= p /\ p <= bounds.hi}

\* np.max(np.abs(x))
RECURSIVE MaxAbs(_)
MaxAbs(x) ==
    IF x = <<>> THEN 0
    ELSE LET m == MaxAbs(Tail(x))
         IN  IF Abs(Head(x)) > m THEN Abs(Head(x)) ELSE m

\* utils.inf_norm of a 1d array: x / (np.max(np.abs(x)) + 1.0e-12), a new
\* array (x is left as it is)
InfNorm(x) ==
    [i \in 1..Len(x) |->
        NumDiv(Int2Num(x[i]), NumAdd(Int2Num(MaxAbs(x)), Tiny(1)))]

\* the arrays a plot of blind_deconvolution shows
PlotArrays(noisy_ar_s, est_ar_s, est_ai_s, est_i_s, est_hrf) ==
    <<InfNorm(noisy_ar_s), InfNorm(est_ar_s), InfNorm(est_ai_s),
      InfNorm(est_i_s), InfNorm(est_hrf)>>

\* one entry of the log of black-box calls
SolveCall(hrf, lbda, v0, nb_iter, out) ==
    [op |-> "solve", hrf |-> hrf, lbda |-> lbda, v0 |-> v0,
     nb_iter |-> nb_iter, out |-> out]

FitCall_Stale(ai_s, x0, out) ==
    [op |-> "fit", hrf |-> <<>>, lbda |-> Zero, v0 |-> Zeros(Len(ai_s)),
     nb_iter |-> x0, out |-> <<out>>]

FitCall(ai_s, x0, out) ==
    [op |-> "fit", hrf |-> <<>>, lbda |-> Zero, v0 |-> ai_s,
     nb_iter |-> x0, out |-> <<out>>]

KernelCall(p) ==
    [op |-> "hrf_func", hrf |-> HrfFunc(p), lbda |-> Zero, v0 |-> <<>>,
     nb_iter |-> 0, out |-> <<p>>]

-----------------------------------------------------------------------------
(* A run: the local variables of the driver, its position pc, and the log  *)
(* of what it did.                                                         *)

NewRun(verbose, ai_s, hrf, plotting) ==
    [pc |-> "start", exc |-> "none",
     verbose |-> verbose, ai_s |-> ai_s, hrf |-> hrf, plotting |-> plotting,
     bounds |-> NoBounds, est_hrf_params |-> 0, est_hrf |-> <<>>,
     est_i_s |-> <<>>, est_ai_s |-> <<>>, est_ar_s |-> <<>>,
     v0 |-> <<>>, x |-> <<>>,
     alpha |-> One, lbda |-> One, nb_iter_deconv |-> 0,
     r_0 |-> Zero, g_0 |-> Zero, j_0 |-> Zero,
     err_ai_s_0 |-> Zero, err_hrf_0 |-> Zero,
     d_J |-> <<>>, d_r |-> <<>>, d_g |-> <<>>, d_l_alpha |-> <<>>,
     d_err_ai_s |-> <<>>, d_err_hrf |-> <<>>,
     idx |-> 0, j |-> 0, iters |-> 0, stopped |-> FALSE,
     calls |-> <<>>, inner |-> <<>>, rounds |-> 0,
     tests |-> <<>>, plots |-> 0, shown |-> <<>>, nfree |-> 0]

Raise(r, e) == [r EXCEPT !.pc = "raised", !.exc = e]

\* the ground truth of the diagnostics: the block signal and the kernel
TrueAiS == <<1, 1>>

TrueHrf == <<2, 1>>

\* np.linalg.norm(u - v), kept squared
NormSq(u, v) == Int2Num(SumSq(u, v))

-----------------------------------------------------------------------------
(* blind_deconvolution                                                     *)

NbIterDeconvAuto == 50

NbIterDeconv == 500

\* lbda = 1.0 / (2.0 * alpha)
LbdaOf(alpha) == NumDiv(One, NumMul(Int2Num(2), alpha))

\* the joint cost recorded for an outer iteration: (r + lbda * g) / j_0 + 1.0e-30
JointCost(r, g, lbda, j_0) ==
    NumAdd(NumDiv(NumAdd(Int2Num(r), NumMul(lbda, Int2Num(g))), j_0), Tiny(1))

\* the outer early-stopping test on the joint-cost trace
OuterStop(J, wind, tol) ==
    LET sub_wind_len == wind \div 2
        old_j == Mean(SliceOld(J, sub_wind_len))
        new_j == Mean(SliceNew(J, sub_wind_len))
        diff == NumDiv(NumSub(new_j, old_j), new_j)
    IN  Less(diff, tol)

\* is the outer test evaluated at this index
OuterTested(early_stopping, idx, wind) == early_stopping /\ idx > wind

LoopExit_OneMore(stop, idx, nb_iter) == stop \/ idx + 1 > nb_iter

\* `for idx in range(nb_iter)` with its break: is this iteration the last
LoopExit(stop, idx, nb_iter) == stop \/ idx + 1 >= nb_iter

\* lines 347-348: none of hrf_params, hrf_func, hrf_cst_params is supplied
ModelDefault(a) ==
    ~a.hrf_params_given /\ ~a.hrf_func_given /\ ~a.hrf_cst_params_given

ModelPartial_AllMissing(a) ==
    ~a.hrf_params_given /\ ~a.hrf_func_given /\ ~a.hrf_cst_params_given

\* lines 353-354: one of them at least is missing
ModelPartial(a) ==
    ~a.hrf_params_given \/ ~a.hrf_func_given \/ ~a.hrf_cst_params_given

InitLbda_Half(a) == LbdaOf(One)

\* lines 364-370: lbda as supplied, or 1 / (2 * alpha) with alpha = 1.0
InitLbda(a) == IF a.no_lbda THEN LbdaOf(One) ELSE a.lbda

ErrTraceInit_Always(given) == <<One>>

\* lines 387-388 and 390-391: an error trace exists when its ground truth does
ErrTraceInit(given) == IF given THEN <<One>> ELSE <<>>

\* lines 346-403: the kernel model, then the initial state and traces
BD_Begin(a, r) ==
    LET none == ModelDefault(a)
        part == ModelPartial(a)
        hrf_params == IF none THEN MAX_DELTA ELSE a.hrf_params
        bounds == IF none THEN DefaultBounds ELSE a.bounds
        est_hrf == HrfFunc(hrf_params)
        N == Len(a.noisy_ar_s)
        lbda == InitLbda(a)
        est_i_s == Zeros(N)
        est_ai_s == Zeros(N)
        est_ar_s == Zeros(N)
        r_0 == Int2Num(SumSq(est_ar_s, a.noisy_ar_s))
        g_0 == Int2Num(L1(est_i_s))
    IN  IF ~none /\ part THEN Raise(r, "ValueError")
        ELSE [r EXCEPT
                !.pc = IF a.nb_iter > 0 THEN "loop" ELSE "last",
                !.bounds = bounds,
                !.est_hrf_params = hrf_params,
                !.est_hrf = est_hrf,
                !.calls = Append(@, KernelCall(hrf_params)),
                !.alpha = One,
                !.lbda = lbda,
                !.nb_iter_deconv = NbIterDeconv,
                !.est_i_s = est_i_s,
                !.est_ai_s = est_ai_s,
                !.est_ar_s = est_ar_s,
                !.d_err_ai_s = ErrTraceInit(r.ai_s),
                !.err_ai_s_0 = IF r.ai_s THEN NormSq(est_ai_s, TrueAiS) ELSE Zero,
                !.d_err_hrf = ErrTraceInit(r.hrf),
                !.err_hrf_0 = IF r.hrf THEN NormSq(est_hrf, TrueHrf) ELSE Zero,
                !.r_0 = r_0,
                !.d_r = <<One>>,
                !.g_0 = g_0,
                !.d_g = <<g_0>>,
                !.j_0 = NumAdd(r_0, NumMul(lbda, g_0)),
                !.d_J = <<One>>,
                !.d_l_alpha = <<>>,
                !.idx = 0]

BD_StateA_PlotInPlace(a, r, x) ==
    LET m  == MaxAbs(r.est_i_s)
        v0 == IF r.plotting /\ m > 0
              THEN [i \in 1..Len(r.est_i_s) |-> r.est_i_s[i] \div m]
              ELSE r.est_i_s
    IN  [r EXCEPT
            !.pc = "fit",
            !.plots = IF r.plotting THEN @ + 1 ELSE @,
            !.shown = IF r.plotting
                      THEN PlotArrays(a.noisy_ar_s, r.est_ar_s, r.est_ai_s,
                                      r.est_i_s, r.est_hrf)
                      ELSE @,
            !.v0 = v0,
            !.calls = Append(@, SolveCall(r.est_hrf, r.lbda, v0, 5000, x)),
            !.est_i_s = x,
            !.est_ai_s = Integ(x),
            !.est_ar_s = Conv(r.est_hrf, Integ(x))]

\* lines 408-474 and 531-547: the head of an outer iteration (with its plot)
\* and State A with lbda supplied: one solver call from the current estimate
BD_StateA(a, r, x) ==
    [r EXCEPT
        !.pc = "fit",
        !.plots = IF r.plotting THEN @ + 1 ELSE @,
        !.shown = IF r.plotting
                  THEN PlotArrays(a.noisy_ar_s, r.est_ar_s, r.est_ai_s,
                                  r.est_i_s, r.est_hrf)
                  ELSE @,
        !.v0 = r.est_i_s,
        !.calls = Append(@, SolveCall(r.est_hrf, r.lbda, r.est_i_s, 5000, x)),
        !.est_i_s = x,
        !.est_ai_s = Integ(x),
        !.est_ar_s = Conv(r.est_hrf, Integ(x))]

\* lines 549-588: State B (the kernel fit), the cost of the iteration and
\* the outer early-stopping test
BD_StateB(a, r, p) ==
    LET est_hrf == HrfFunc(p)
        est_ar_s == Conv(est_hrf, r.est_ai_s)
        rr == SumSq(est_ar_s, a.noisy_ar_s)
        g == L1(r.est_i_s)
        J == Append(r.d_J, JointCost(rr, g, r.lbda, r.j_0))
        tested == OuterTested(a.early_stopping, r.idx, a.wind)
        stop == tested /\ OuterStop(J, a.wind, a.tol)
    IN  [r EXCEPT
            !.calls = Append(Append(@, FitCall(r.est_ai_s, r.est_hrf_params, p)),
                             KernelCall(p)),
            !.est_hrf_params = p,
            !.est_hrf = est_hrf,
            !.est_ar_s = est_ar_s,
            !.d_J = J,
            !.d_r = Append(@, NumAdd(NumDiv(Int2Num(rr), r.r_0), Tiny(1))),
            !.d_g = Append(@, Int2Num(g)),
            !.d_err_ai_s = IF r.ai_s
                           THEN Append(@, NumDiv(NormSq(r.est_ai_s, TrueAiS), r.err_ai_s_0))
                           ELSE @,
            !.d_err_hrf = IF r.hrf
                          THEN Append(@, NumDiv(NormSq(est_hrf, TrueHrf), r.err_hrf_0))
                          ELSE @,
            !.tests = IF tested THEN Append(@, r.idx) ELSE @,
            !.iters = @ + 1,
            !.stopped = stop,
            !.idx = IF LoopExit(stop, r.idx, a.nb_iter) THEN @ ELSE @ + 1,
            !.pc = IF LoopExit(stop, r.idx, a.nb_iter) THEN "last" ELSE "loop"]

BD_Last_Overwrite(a, r, x) ==
    LET N == Len(a.noisy_ar_s)
        est_ai_s == Integ(x)
        est_ar_s == Conv(r.est_hrf, est_ai_s)
        rr == SumSq(est_ar_s, a.noisy_ar_s)
        g == L1(x)
    IN  [r EXCEPT
            !.pc = "done",
            !.v0 = Zeros(N),
            !.calls = Append(@, SolveCall(r.est_hrf, r.lbda, Zeros(N), 10000, x)),
            !.est_i_s = x,
            !.est_ai_s = est_ai_s,
            !.est_ar_s = est_ar_s,
            !.d_J = [@ EXCEPT ![Len(@)] =
                        NumDiv(NumAdd(Int2Num(rr), NumMul(r.lbda, Int2Num(g))), r.j_0)],
            !.d_r = [@ EXCEPT ![Len(@)] = NumDiv(Int2Num(rr), r.r_0)],
            !.d_g = [@ EXCEPT ![Len(@)] = Int2Num(g)]]

\* lines 589-625: the last deconvolution, from zero, and the returned traces
BD_Last(a, r, x) ==
    LET N == Len(a.noisy_ar_s)
        est_ai_s == Integ(x)
        est_ar_s == Conv(r.est_hrf, est_ai_s)
        rr == SumSq(est_ar_s, a.noisy_ar_s)
        g == L1(x)
    IN  [r EXCEPT
            !.pc = "done",
            !.v0 = Zeros(N),
            !.calls = Append(@, SolveCall(r.est_hrf, r.lbda, Zeros(N), 10000, x)),
            !.est_i_s = x,
            !.est_ai_s = est_ai_s,
            !.est_ar_s = est_ar_s,
            !.d_J = Append(@, NumDiv(NumAdd(Int2Num(rr), NumMul(r.lbda, Int2Num(g))), r.j_0)),
            !.d_r = Append(@, NumDiv(Int2Num(rr), r.r_0)),
            !.d_g = Append(@, Int2Num(g)),
            !.d_err_ai_s = IF r.ai_s
                           THEN Append(@, NumDiv(NormSq(est_ai_s, TrueAiS), r.err_ai_s_0))
                           ELSE @,
            !.d_err_hrf = IF r.hrf
                          THEN Append(@, NumDiv(NormSq(r.est_hrf, TrueHrf), r.err_hrf_0))
                          ELSE @]

-----------------------------------------------------------------------------
(* blind_deconvolution with lbda=None: the inner alpha sub-loop            *)

\* how many answers of the solver are drawn freely in State A of a run
\* with lbda=None; after them the solver repeats its last answer
MaxInner == 2

InnerAnswers(r) == IF r.nfree < MaxInner THEN Xs ELSE {r.x}

\* mu = 1.0e-2
MuBD == Frac(1, 100)

\* alpha += mu * (grad.residual(x) - N * sigma**2)
AlphaStep(alpha, mu, res, nsig2) ==
    NumAdd(alpha, NumMul(mu, Int2Num(res - nsig2)))

Slide_DropNewest(l, alpha, wind) ==
    LET l2 == Append(l, alpha)
    IN  IF Len(l2) > wind THEN SubSeq(l2, 1, Len(l2) - 1) ELSE l2

\* l.append(alpha); if len(l) > wind: l = l[1:]
Slide(l, alpha, wind) ==
    LET l2 == Append(l, alpha) IN IF Len(l2) > wind THEN Tail(l2) ELSE l2

\* the early-stopping test of the inner sub-loop on the window of alpha:
\* |new - old| / (|new| + 1.0e-10) < 1.0e-2.  The 1.0e-10 decides the
\* comparison only when the quotient without it is exactly 1.0e-2.
InnerStop(l_alpha, wind) ==
    LET sub_wind_len == wind \div 2
        old_iter == Mean(SliceOld(l_alpha, sub_wind_len))
        new_iter == Mean(SliceNew(l_alpha, sub_wind_len))
        crit_num == NumAbs(NumSub(new_iter, old_iter))
        crit_deno == NumAbs(new_iter)
        diff == NumDiv(crit_num, NumAdd(crit_deno, Tiny(1)))
    IN  \/ Less(diff, Frac(1, 100))
        \/ crit_deno.k = "fin" /\ ~IsZero(crit_deno) /\ diff = Frac(1, 100)

InnerTested_Always(early_stopping, j) == j > 2

\* is the inner test evaluated at this inner index
InnerTested(early_stopping, j) == early_stopping /\ j > 2

\* the message of the inner early stop formats d['J'][j]
InnerPrintRaises(verbose, j, J) == verbose > 1 /\ j >= Len(J)

\* lines 408-521: one round of the inner sub-loop (the first round of an
\* outer iteration also runs the head of the iteration, lines 408-483)
BD_Inner(a, r, x) ==
    LET first == r.pc = "loop"
        j == IF first THEN 0 ELSE r.j
        v0 == IF first THEN r.est_i_s ELSE r.v0
        lbda == LbdaOf(r.alpha)
        alpha == AlphaStep(r.alpha, MuBD, Residual(r.est_hrf, x, a.noisy_ar_s), a.nsig2)
        l_alpha == Slide(r.d_l_alpha, alpha, a.wind)
        stop == InnerTested(a.early_stopping, j) /\ InnerStop(l_alpha, a.wind)
        raises == stop /\ InnerPrintRaises(r.verbose, j, r.d_J)
    IN  [r EXCEPT
            !.plots = IF first /\ r.plotting THEN @ + 1 ELSE @,
            !.shown = IF first /\ r.plotting
                      THEN PlotArrays(a.noisy_ar_s, r.est_ar_s, r.est_ai_s,
                                      r.est_i_s, r.est_hrf)
                      ELSE @,
            !.v0 = v0,
            !.lbda = lbda,
            !.inner = <<SolveCall(r.est_hrf, lbda, v0, 1000, x)>>,
            !.rounds = j + 1,
            !.x = x,
            !.nfree = IF @ < MaxInner THEN @ + 1 ELSE @,
            !.alpha = alpha,
            !.d_l_alpha = l_alpha,
            !.j = IF LoopExit(stop, j, r.nb_iter_deconv) THEN j ELSE j + 1,
            !.exc = IF raises THEN "IndexError" ELSE @,
            !.pc = IF raises THEN "raised"
                   ELSE IF LoopExit(stop, j, r.nb_iter_deconv) THEN "long"
                   ELSE "inner"]

\* lines 523-529 and 546-547: the longer deconvolution that ends State A
BD_Long(a, r, x) ==
    [r EXCEPT
        !.pc = "fit",
        !.calls = Append(@, SolveCall(r.est_hrf, LbdaOf(r.alpha), r.v0, 5000, x)),
        !.x = x,
        !.nfree = IF @ < MaxInner THEN @ + 1 ELSE @,
        !.est_i_s = x,
        !.est_ai_s = Integ(x),
        !.est_ar_s = Conv(r.est_hrf, Integ(x))]

-----------------------------------------------------------------------------
(* bd: the same alternation with the three-atom kernel basis               *)

\* basis3_hrf(BASIS3_HRF_INIT, ...) : the initial kernel
Basis3Init == <<2, 0>>

\* what basis3_hrf_estimation may return: a kernel of the bounded basis
Basis3Fits == {<<1, 1>>, <<2, 1>>}

Basis3Call(z, h) ==
    [op |-> "fit", hrf |-> <<>>, lbda |-> Zero, v0 |-> z, nb_iter |-> 0, out |-> h]

\* lines 633-665
Bd_Begin(a, r) ==
    LET N == Len(a.noisy_ar_s)
        diff_z == Zeros(N)
        x == Zeros(N)
        r_0 == Int2Num(SumSq(x, a.noisy_ar_s))
        g_0 == Int2Num(L1(diff_z))
    IN  [r EXCEPT
            !.pc = IF a.nb_iter > 0 THEN "loop" ELSE "last",
            !.est_hrf = Basis3Init,
            !.est_i_s = diff_z,
            !.est_ai_s = Zeros(N),
            !.est_ar_s = x,
            !.lbda = a.lbda,
            !.r_0 = r_0,
            !.d_r = <<One>>,
            !.g_0 = g_0,
            !.d_g = <<g_0>>,
            !.j_0 = NumAdd(r_0, NumMul(a.lbda, g_0)),
            !.d_J = <<One>>,
            !.d_l_alpha = <<>>,
            !.idx = 0]

\* lines 668-678: the deconvolution of an iteration
Bd_StateA(a, r, x) ==
    [r EXCEPT
        !.pc = "fit",
        !.v0 = r.est_i_s,
        !.calls = Append(@, SolveCall(r.est_hrf, r.lbda, r.est_i_s, 5000, x)),
        !.est_i_s = x,
        !.est_ai_s = Integ(x)]

\* lines 680-710: the kernel estimation, the cost and the early-stopping test
Bd_StateB(a, r, h) ==
    LET x == Conv(h, r.est_ai_s)
        rr == SumSq(x, a.noisy_ar_s)
        g == L1(r.est_i_s)
        J == Append(r.d_J, JointCost(rr, g, r.lbda, r.j_0))
        tested == OuterTested(a.early_stopping, r.idx, a.wind)
        stop == tested /\ OuterStop(J, a.wind, a.tol)
    IN  [r EXCEPT
            !.calls = Append(@, Basis3Call(r.est_ai_s, h)),
            !.est_hrf = h,
            !.est_ar_s = x,
            !.d_J = J,
            !.d_r = Append(@, NumAdd(NumDiv(Int2Num(rr), r.r_0), Tiny(1))),
            !.d_g = Append(@, Int2Num(g)),
            !.tests = IF tested THEN Append(@, r.idx) ELSE @,
            !.iters = @ + 1,
            !.stopped = stop,
            !.idx = IF LoopExit(stop, r.idx, a.nb_iter) THEN @ ELSE @ + 1,
            !.pc = IF LoopExit(stop, r.idx, a.nb_iter) THEN "last" ELSE "loop"]

Bd_Last_StalePrediction(a, r, x) ==
    LET z == Integ(x)
        xx == Conv(r.est_hrf, z)
        rr == SumSq(xx, a.noisy_ar_s)
        g == L1(x)
    IN  [r EXCEPT
            !.pc = "done",
            !.v0 = r.est_i_s,
            !.calls = Append(@, SolveCall(r.est_hrf, r.lbda, r.est_i_s, 10000, x)),
            !.est_i_s = x,
            !.est_ai_s = z,
            !.est_ar_s = r.est_ar_s,
            !.d_J = Append(@, NumDiv(NumAdd(Int2Num(rr), NumMul(r.lbda, Int2Num(g))), r.j_0)),
            !.d_r = Append(@, NumDiv(Int2Num(rr), r.r_0)),
            !.d_g = Append(@, Int2Num(g))]

\* lines 712-734: the last (long) deconvolution, from the current estimate
Bd_Last(a, r, x) ==
    LET z == Integ(x)
        xx == Conv(r.est_hrf, z)
        rr == SumSq(xx, a.noisy_ar_s)
        g == L1(x)
    IN  [r EXCEPT
            !.pc = "done",
            !.v0 = r.est_i_s,
            !.calls = Append(@, SolveCall(r.est_hrf, r.lbda, r.est_i_s, 10000, x)),
            !.est_i_s = x,
            !.est_ai_s = z,
            !.est_ar_s = xx,
            !.d_J = Append(@, NumDiv(NumAdd(Int2Num(rr), NumMul(r.lbda, Int2Num(g))), r.j_0)),
            !.d_r = Append(@, NumDiv(Int2Num(rr), r.r_0)),
            !.d_g = Append(@, Int2Num(g))]

-----------------------------------------------------------------------------
(* deconvolution: the kernel is given                                      *)

\* mu = 5.0e-3
MuDec == Frac(1, 200)

\* the early-stopping test of the main loop on the window of alpha
DecStop(l_alpha, wind, tol) ==
    LET sub_wind_len == wind \div 2
        old_iter == Mean(SliceOld(l_alpha, sub_wind_len))
        new_iter == Mean(SliceNew(l_alpha, sub_wind_len))
        crit_num == NumAbs(NumSub(new_iter, old_iter))
        crit_deno == NumAbs(new_iter)
        diff == NumDiv(crit_num, crit_deno)
    IN  Less(diff, tol)

Dec_Begin_CheckAutoOnly(a, r) ==
    IF a.no_lbda /\ a.wind < 2 THEN Raise(r, "ValueError")
    ELSE [r EXCEPT
            !.pc = IF ~a.no_lbda THEN "solve"
                   ELSE IF a.nb_iter > 0 THEN "loop" ELSE "last",
            !.est_hrf = a.kernel,
            !.v0 = Zeros(Len(a.noisy_ar_s)),
            !.lbda = IF a.no_lbda THEN @ ELSE a.lbda,
            !.alpha = One,
            !.idx = 0]

\* lines 59-73 (and 90-93 when lbda is None)
Dec_Begin(a, r) ==
    IF a.wind < 2 THEN Raise(r, "ValueError")
    ELSE [r EXCEPT
            !.pc = IF ~a.no_lbda THEN "solve"
                   ELSE IF a.nb_iter > 0 THEN "loop" ELSE "last",
            !.est_hrf = a.kernel,
            !.v0 = Zeros(Len(a.noisy_ar_s)),
            !.lbda = IF a.no_lbda THEN @ ELSE a.lbda,
            !.alpha = One,
            !.idx = 0]

\* lines 74-86: lbda supplied, a single solver call.  The returned J is the
\* solver's own trace, which the driver does not look at.
Dec_Fixed(a, r, x) ==
    [r EXCEPT
        !.pc = "done",
        !.calls = Append(@, SolveCall(r.est_hrf, r.lbda, r.v0, a.nb_iter, x)),
        !.est_i_s = x,
        !.est_ai_s = Integ(x),
        !.est_ar_s = Conv(r.est_hrf, Integ(x))]

\* lines 94-140: one iteration of the main loop
Dec_Iter(a, r, x) ==
    LET lbda0 == LbdaOf(r.alpha)
        res == Residual(r.est_hrf, x, a.noisy_ar_s)
        alpha == AlphaStep(r.alpha, MuDec, res, a.nsig2)
        l_alpha == Slide(r.d_l_alpha, alpha, a.wind)
        g == L1(x)
        lbda == LbdaOf(alpha)
        tested == a.early_stopping /\ r.idx > a.wind
        stop == tested /\ DecStop(l_alpha, a.wind, a.tol)
    IN  [r EXCEPT
            !.calls = Append(@, SolveCall(r.est_hrf, lbda0, r.v0, 999, x)),
            !.x = x,
            !.alpha = alpha,
            !.d_l_alpha = l_alpha,
            !.d_r = Append(@, Int2Num(res)),
            !.d_g = Append(@, Int2Num(g)),
            !.lbda = lbda,
            !.d_J = Append(@, NumAdd(NumMul(Frac(1, 2), Int2Num(res)),
                                     NumMul(lbda, Int2Num(g)))),
            !.tests = IF tested THEN Append(@, r.idx) ELSE @,
            !.iters = @ + 1,
            !.stopped = stop,
            !.idx = IF LoopExit(stop, r.idx, a.nb_iter) THEN @ ELSE @ + 1,
            !.pc = IF LoopExit(stop, r.idx, a.nb_iter) THEN "last" ELSE "loop"]

\* lines 142-154: the last deconvolution with a larger budget
Dec_Last(a, r, x) ==
    [r EXCEPT
        !.pc = "done",
        !.lbda = LbdaOf(r.alpha),
        !.calls = Append(@, SolveCall(r.est_hrf, LbdaOf(r.alpha), r.v0, 9999, x)),
        !.est_i_s = x,
        !.est_ai_s = Integ(x),
        !.est_ar_s = Conv(r.est_hrf, Integ(x))]

-----------------------------------------------------------------------------
(* The arguments of a call.                                                *)

\* the largest iteration budget nb_iter
MaxNbIter == 4

Observations == {<<2, 4>>, <<0, 0>>}

Winds == {1, 2}

Tols == {Frac(1, 1000)}

\* N * sigma**2, the noise energy the residual is matched to
NoiseLevels == {20, 120}

CommonArgs(func) ==
    [func : {func},
     noisy_ar_s : Observations,
     hrf_params_given : {FALSE}, hrf_func_given : {FALSE},
     hrf_cst_params_given : {FALSE},
     hrf_params : {0}, bounds : {NoBounds},
     kernel : {<<2, 1>>},
     no_lbda : {FALSE}, lbda : {One}, nsig2 : {0},
     early_stopping : BOOLEAN, wind : Winds, tol : Tols,
     nb_iter : 0..MaxNbIter]

\* blind_deconvolution: the kernel model is the default one, a supplied one
\* (parameter 10, no bounds) or a partly supplied one; lbda is 1.0 or None
ArgsBD ==
    {[a EXCEPT !.hrf_params_given = c[1], !.hrf_func_given = c[2],
               !.hrf_cst_params_given = c[3],
               !.hrf_params = IF c[1] THEN 10 ELSE 0,
               !.no_lbda = m[1], !.nsig2 = m[2]] :
        a \in CommonArgs("blind_deconvolution"),
        c \in BOOLEAN \X BOOLEAN \X BOOLEAN,
        m \in {<<FALSE, 0>>} \cup ({TRUE} \X NoiseLevels)}

ArgsBd == CommonArgs("bd")

\* deconvolution is also called with a wind of 3, and then with a budget
\* that lets the main loop go past index wind + 1
DecWinds == Winds \cup {3}

ArgsDec ==
    {[a EXCEPT !.no_lbda = m[1], !.nsig2 = m[2], !.wind = w, !.nb_iter = n] :
        a \in {b \in CommonArgs("deconvolution") : b.wind = 1 /\ b.nb_iter = 0},
        m \in {<<FALSE, 0>>} \cup ({TRUE} \X NoiseLevels),
        w \in DecWinds, n \in 0..(MaxNbIter + 1)}

\* verbose, and for blind_deconvolution the ground truth (ai_s, hrf) and
\* plotting: a run differs from the reference run in one of them at most
Diags(func) ==
    {<<v, FALSE, FALSE, FALSE>> : v \in 0..2}
    \cup (IF func = "blind_deconvolution"
          THEN {<<0, TRUE, FALSE, FALSE>>, <<0, FALSE, TRUE, FALSE>>,
                <<0, TRUE, TRUE, FALSE>>, <<0, FALSE, FALSE, TRUE>>}
          ELSE {})

\* The budgets that are explored.  The full budget MaxNbIter is given to
\* the calls that can reach the outer early-stopping test (lbda
\* supplied, early stopping on, the default kernel model, a non-zero
\* observation, no ground truth or plot); the other calls get shorter
\* budgets, the calls with lbda=None (whose State A runs up to NbIterDeconv
\* solver calls) the shortest.
Budget(a, dg) ==
    LET plain == ~dg[2] /\ ~dg[3] /\ ~dg[4]
        silent == dg[1] = 0
        usual == a.noisy_ar_s = <<2, 4>> /\ ~a.hrf_params_given
    IN  CASE a.func = "deconvolution" ->
                IF a.wind = 3 THEN MaxNbIter + 1 ELSE MaxNbIter
          [] a.no_lbda ->
                IF ~usual THEN 0
                ELSE IF a.wind = 2 /\ a.early_stopping
                THEN (IF plain THEN MaxNbIter - 2 ELSE MaxNbIter - 3)
                ELSE IF plain /\ silent THEN MaxNbIter - 3
                ELSE 0
          [] OTHER ->
                IF usual /\ plain /\ a.early_stopping THEN MaxNbIter
                ELSE IF usual /\ plain THEN MaxNbIter - 1
                ELSE MaxNbIter - 2

Init ==
    /\ args \in ArgsBD \cup ArgsBd \cup ArgsDec
    /\ \E dg \in Diags(args.func) :
        /\ args.nb_iter <= Budget(args, dg)
        /\ run = NewRun(dg[1], dg[2], dg[3], dg[4])
    /\ ref = NewRun(0, FALSE, FALSE, FALSE)

-----------------------------------------------------------------------------
(* The steps.  The reference run takes the same step, with the same        *)
(* black-box answer, as long as it is at the same position.                *)

InBD == args.func = "blind_deconvolution"

InBd == args.func = "bd"

InDec == args.func = "deconvolution"

\* where each step of a driver applies: the driver and its position
At(step) ==
    CASE step = "BDBegin" -> InBD /\ run.pc = "start"
      [] step = "BDStateA" -> InBD /\ run.pc = "loop" /\ ~args.no_lbda
      [] step = "BDInner" -> InBD /\ run.pc \in {"loop", "inner"} /\ args.no_lbda
      [] step = "BDLong" -> InBD /\ run.pc = "long"
      [] step = "BDStateB" -> InBD /\ run.pc = "fit"
      [] step = "BDLast" -> InBD /\ run.pc = "last"
      [] step = "BdBegin" -> InBd /\ run.pc = "start"
      [] step = "BdStateA" -> InBd /\ run.pc = "loop"
      [] step = "BdStateB" -> InBd /\ run.pc = "fit"
      [] step = "BdLast" -> InBd /\ run.pc = "last"
      [] step = "DecBegin" -> InDec /\ run.pc = "start"
      [] step = "DecFixed" -> InDec /\ run.pc = "solve"
      [] step = "DecIter" -> InDec /\ run.pc = "loop"
      [] step = "DecLast" -> InDec /\ run.pc = "last"

BDBegin ==
    /\ At("BDBegin")
    /\ run' = BD_Begin(args, run)
    /\ ref' = IF ref.pc = run.pc THEN BD_Begin(args, ref) ELSE ref
    /\ UNCHANGED args

BDStateA ==
    /\ At("BDStateA")
    /\ \E x \in Xs :
        /\ run' = BD_StateA(args, run, x)
        /\ ref' = IF ref.pc = run.pc THEN BD_StateA(args, ref, x) ELSE ref
    /\ UNCHANGED args

BDInner ==
    /\ At("BDInner")
    /\ \E x \in InnerAnswers(run) :
        /\ run' = BD_Inner(args, run, x)
        /\ ref' = IF ref.pc = run.pc THEN BD_Inner(args, ref, x) ELSE ref
    /\ UNCHANGED args

BDLong ==
    /\ At("BDLong")
    /\ \E x \in InnerAnswers(run) :
        /\ run' = BD_Long(args, run, x)
        /\ ref' = IF ref.pc = run.pc THEN BD_Long(args, ref, x) ELSE ref
    /\ UNCHANGED args

BDStateB ==
    /\ At("BDStateB")
    /\ \E p \in FitResults(run.bounds) :
        /\ run' = BD_StateB(args, run, p)
        /\ ref' = IF ref.pc = run.pc THEN BD_StateB(args, ref, p) ELSE ref
    /\ UNCHANGED args

BDLast ==
    /\ At("BDLast")
    /\ \E x \in Xs :
        /\ run' = BD_Last(args, run, x)
        /\ ref' = IF ref.pc = run.pc THEN BD_Last(args, ref, x) ELSE ref
    /\ UNCHANGED args

BdBegin ==
    /\ At("BdBegin")
    /\ run' = Bd_Begin(args, run)
    /\ ref' = IF ref.pc = run.pc THEN Bd_Begin(args, ref) ELSE ref
    /\ UNCHANGED args

BdStateA ==
    /\ At("BdStateA")
    /\ \E x \in Xs :
        /\ run' = Bd_StateA(args, run, x)
        /\ ref' = IF ref.pc = run.pc THEN Bd_StateA(args, ref, x) ELSE ref
    /\ UNCHANGED args

BdStateB ==
    /\ At("BdStateB")
    /\ \E h \in Basis3Fits :
        /\ run' = Bd_StateB(args, run, h)
        /\ ref' = IF ref.pc = run.pc THEN Bd_StateB(args, ref, h) ELSE ref
    /\ UNCHANGED args

BdLast ==
    /\ At("BdLast")
    /\ \E x \in Xs :
        /\ run' = Bd_Last(args, run, x)
        /\ ref' = IF ref.pc = run.pc THEN Bd_Last(args, ref, x) ELSE ref
    /\ UNCHANGED args

DecBegin ==
    /\ At("DecBegin")
    /\ run' = Dec_Begin(args, run)
    /\ ref' = IF ref.pc = run.pc THEN Dec_Begin(args, ref) ELSE ref
    /\ UNCHANGED args

DecFixed ==
    /\ At("DecFixed")
    /\ \E x \in Xs :
        /\ run' = Dec_Fixed(args, run, x)
        /\ ref' = IF ref.pc = run.pc THEN Dec_Fixed(args, ref, x) ELSE ref
    /\ UNCHANGED args

DecIter ==
    /\ At("DecIter")
    /\ \E x \in Xs :
        /\ run' = Dec_Iter(args, run, x)
        /\ ref' = IF ref.pc = run.pc THEN Dec_Iter(args, ref, x) ELSE ref
    /\ UNCHANGED args

DecLast ==
    /\ At("DecLast")
    /\ \E x \in Xs :
        /\ run' = Dec_Last(args, run, x)
        /\ ref' = IF ref.pc = run.pc THEN Dec_Last(args, ref, x) ELSE ref
    /\ UNCHANGED args

Next ==
    \/ BDBegin \/ BDStateA \/ BDInner \/ BDLong \/ BDStateB \/ BDLast
    \/ BdBegin \/ BdStateA \/ BdStateB \/ BdLast
    \/ DecBegin \/ DecFixed \/ DecIter \/ DecLast

Spec == Init /\ [][Next]_vars

-----------------------------------------------------------------------------
(* Properties.                                                             *)

Terminated(r) == r.pc \in {"done", "raised"}

\* the black-box calls of a run that are solver calls or kernel fits
RECURSIVE Work(_)
Work(calls) ==
    IF calls = <<>> THEN <<>>
    ELSE IF Head(calls).op = "hrf_func" THEN Work(Tail(calls))
    ELSE <<Head(calls)>> \o Work(Tail(calls))

SomeGiven(a) == a.hrf_params_given \/ a.hrf_func_given \/ a.hrf_cst_params_given

AllGiven(a) == a.hrf_params_given /\ a.hrf_func_given /\ a.hrf_cst_params_given

\* C1: blind_deconvolution with some but not all of hrf_params, hrf_func and
\* hrf_cst_params fails at once with the configuration error (ValueError),
\* before any kernel evaluation, solver call or kernel fit; with none of them
\* it takes the default kernel model (MAX_DELTA and the default bounds) and
\* with all of them the supplied one, and raises no configuration error.
C1_ConfigurationError ==
    (InBD /\ run.pc # "start") =>
        /\ (SomeGiven(args) /\ ~AllGiven(args)) =>
                /\ run.pc = "raised"
                /\ run.exc = "ValueError"
                /\ run.calls = <<>>
                /\ run.inner = <<>>
        /\ ~SomeGiven(args) =>
                /\ run.exc # "ValueError"
                /\ run.calls[1] = KernelCall(MAX_DELTA)
                /\ run.bounds = DefaultBounds
        /\ AllGiven(args) =>
                /\ run.exc # "ValueError"
                /\ run.calls[1] = KernelCall(args.hrf_params)
                /\ run.bounds = args.bounds

C1_Witness ==
    /\ InBD
    /\ args.hrf_func_given /\ ~args.hrf_params_given
    /\ run.pc = "raised"

StrictlyDecreasing(J) ==
    \A i \in 1..(Len(J) - 1) : Less(J[i + 1], J[i])

AllEqual(J) == \A i \in 1..Len(J) : J[i] = J[1]

\* |new_j - old_j| / |new_j| of the two halves of the trace
RelChange(J, wind) ==
    LET sub_wind_len == wind \div 2
        old_j == Mean(SliceOld(J, sub_wind_len))
        new_j == Mean(SliceNew(J, sub_wind_len))
    IN  NumDiv(NumAbs(NumSub(new_j, old_j)), NumAbs(new_j))

\* the outer iteration that has just ended evaluated the early-stopping test
JustTested(r) ==
    /\ r.pc \in {"loop", "last"}
    /\ r.tests # <<>>
    /\ r.tests[Len(r.tests)] = r.iters - 1

\* C2: with early stopping on, the outer test of blind_deconvolution and bd
\* does not fire on a strictly decreasing joint-cost trace whose relative
\* change between the means of its older and newer part is above tol in
\* magnitude: the loop goes on to the next outer iteration.
C2_NoStopWhileDecreasing ==
    ( /\ InBD \/ InBd
      /\ args.early_stopping
      /\ JustTested(run)
      /\ StrictlyDecreasing(run.d_J)
      /\ Less(args.tol, RelChange(run.d_J, args.wind)) )
        => ~run.stopped

\* C3: with early stopping on, the outer test is never evaluated at an outer
\* index idx <= wind, and on a joint-cost trace whose entries are all equal
\* it fires at idx = wind + 1, so that (when nb_iter allows) the loop runs
\* exactly wind + 2 outer iterations.
C3_StopOnConstant ==
    (InBD \/ InBd) =>
        /\ \A i \in 1..Len(run.tests) : run.tests[i] > args.wind
        /\ ( /\ args.early_stopping
             /\ run.pc = "last"
             /\ args.nb_iter >= args.wind + 2
             /\ AllEqual(run.d_J) )
                => (run.stopped /\ run.iters = args.wind + 2)

\* C4: blind_deconvolution with lbda=None: after an update of alpha, the
\* lbda of every later use (the next solver call, the joint-cost entry of
\* the outer iteration, the last deconvolution) is 1 / (2 * alpha) for the
\* current alpha.
C4_LbdaFollowsAlpha ==
    (InBD /\ args.no_lbda) =>
        /\ run.inner # <<>> => run.inner[1].lbda = run.lbda
        /\ run.pc = "fit" =>
                /\ run.lbda = LbdaOf(run.alpha)
                /\ run.calls[Len(run.calls)].lbda = LbdaOf(run.alpha)
        /\ (run.pc = "done" /\ run.iters > 0) =>
                run.calls[Len(run.calls)].lbda = LbdaOf(run.alpha)

Steps ==
    {"BDBegin", "BDStateA", "BDInner", "BDLong", "BDStateB", "BDLast",
     "BdBegin", "BdStateA", "BdStateB", "BdLast",
     "DecBegin", "DecFixed", "DecIter", "DecLast"}

\* a step applies, and the black box it calls has an answer to return
Pending ==
    /\ \E step \in Steps : At(step)
    /\ run.pc = "fit" /\ InBD => FitResults(run.bounds) # {}
    /\ run.pc \in {"inner", "long"} => InnerAnswers(run) # {}

\* an upper bound of the number of steps a run has still to make: a round
\* of the inner sub-loop, a solver call or a kernel fit each count for one
Fuel(r) ==
    LET K == NbIterDeconv + 2
        w == CASE r.pc = "loop" -> K
               [] r.pc = "inner" -> K - r.rounds
               [] r.pc = "long" -> 2
               [] r.pc = "fit" -> 1
               [] OTHER -> 0
    IN  IF Terminated(r) THEN 0
        ELSE IF r.pc \in {"last", "solve"} THEN 1
        ELSE IF r.pc = "start" THEN 3 + args.nb_iter * K
        ELSE 2 + (args.nb_iter - r.iters - 1) * K + w

\* C5: blind_deconvolution, bd and deconvolution terminate when every
\* solver call and kernel fit returns: the outer (main) loop runs nb_iter
\* iterations at most (and the inner sub-loop nb_iter_deconv rounds at
\* most), a run that has not ended can always make a step, every step
\* brings the end nearer, and the end of the loop, by the early stop or by
\* the budget, is followed by the last deconvolution and a normal return.
C5_Terminates ==
    /\ [](run.iters <= args.nb_iter /\ run.rounds <= NbIterDeconv)
    /\ [](~Terminated(run) => (Pending /\ Fuel(run) > 0))
    /\ [][Fuel(run') < Fuel(run)]_vars
    /\ [][run.pc = "last" => (run'.pc = "done" /\ run'.exc = "none")]_vars

C5_Witness ==
    /\ run.pc = "done"
    /\ args.nb_iter >= 2
    /\ run.iters = args.nb_iter
    /\ ~run.stopped

\* the kernel a State B has produced
KernelOf(c) == IF InBd THEN c.out ELSE HrfFunc(c.out[1])

\* the kernel the driver starts from
FirstKernel ==
    IF InBd THEN Basis3Init
    ELSE IF AllGiven(args) THEN HrfFunc(args.hrf_params) ELSE HrfFunc(MAX_DELTA)

\* C6: a run of the alternating driver is (State A, State B)^k and then one
\* last solver call, with no kernel fit after it, whether the loop ended by
\* the early stop or by the budget; the first State A works with the
\* initial kernel, a later State A and the last solver call with the kernel
\* of the latest State B, and State B fits the integrated signal of the
\* State A of its iteration.
C6_StepOrdering ==
    (InBD \/ InBd) =>
        LET w == Work(run.calls)
            n == Len(w)
        IN  /\ \A i \in 1..n : w[i].op = IF i % 2 = 1 THEN "solve" ELSE "fit"
            /\ \A i \in 1..n :
                w[i].op = "solve" =>
                    w[i].hrf = IF i = 1 THEN FirstKernel ELSE KernelOf(w[i - 1])
            /\ \A i \in 1..n : w[i].op = "fit" => w[i].v0 = Integ(w[i - 1].out)
            /\ run.pc \in {"inner", "long"} => run.inner[1].hrf = run.est_hrf
            /\ \A i \in 1..n :
                w[i].nb_iter = 10000 <=> (w[i].op = "solve" /\ run.pc = "done" /\ i = n)
            /\ run.pc = "done" => n = 2 * run.iters + 1
            /\ run.pc = "last" => n = 2 * run.iters

C6_Witness ==
    /\ InBD
    /\ run.pc = "done"
    /\ run.iters >= 3
    /\ run.stopped
    /\ \E i \in 1..Len(run.calls) :
        run.calls[i].op = "solve" /\ run.calls[i].hrf # FirstKernel

RECURSIVE Solves(_)
Solves(calls) ==
    IF calls = <<>> THEN <<>>
    ELSE IF Head(calls).op = "solve" THEN <<Head(calls)>> \o Solves(Tail(calls))
    ELSE Solves(Tail(calls))

\* C7: with lbda supplied, an outer iteration of the driver makes one solver
\* call, a run of k outer iterations makes k + 1 of them (with the last
\* deconvolution), and lbda is the supplied value in each.
C7_OneSolvePerIteration ==
    (((InBD /\ ~args.no_lbda) \/ InBd) /\ run.pc # "start") =>
        LET s == Solves(run.calls)
        IN  /\ Len(s) = run.iters + (IF run.pc \in {"fit", "done"} THEN 1 ELSE 0)
            /\ \A i \in 1..Len(s) : s[i].lbda = args.lbda
            /\ run.lbda = args.lbda
            /\ run.inner = <<>> /\ run.rounds = 0

C7_Witness ==
    /\ InBD /\ ~args.no_lbda
    /\ run.pc = "done"
    /\ run.iters = 3
    /\ Len(Solves(run.calls)) = 4

AllFinite(s) == \A i \in 1..Len(s) : IsFinite(s[i])

\* C8: the driver never goes on, or returns, with a non-finite lbda, alpha
\* or cost: when one appears (alpha at 0, so that 1 / (2 * alpha) is
\* infinite, or an initial cost of 0 as normaliser) it aborts with an error.
C8_AbortsOnNonFinite ==
    ((InBD \/ InBd \/ InDec) /\ run.pc \notin {"start", "raised"}) =>
        /\ IsFinite(run.lbda)
        /\ IsFinite(run.alpha)
        /\ AllFinite(run.d_J)
        /\ AllFinite(run.d_r)

\* the arguments of the run are those of the reference run but for verbose
OnlyVerbose(r) == ~r.ai_s /\ ~r.hrf /\ ~r.plotting

\* C9: verbose has no effect on the results: two runs of blind_deconvolution
\* or deconvolution on the same inputs (and the same answers of the solver
\* and the fit) that differ in verbose only end the same way, after the same
\* outer and inner iterations, with the same estimates and traces.
C9_VerboseNoEffect ==
    ((InBD \/ InDec) /\ OnlyVerbose(run)) =>
        [run EXCEPT !.verbose = 0] = ref

\* what a run computes, without the ground truth and its error traces
Optim(r) ==
    [r EXCEPT !.ai_s = FALSE, !.hrf = FALSE,
              !.err_ai_s_0 = Zero, !.err_hrf_0 = Zero,
              !.d_err_ai_s = <<>>, !.d_err_hrf = <<>>]

\* C10: the ground truth ai_s and hrf of blind_deconvolution serve the error
\* traces only: a run with a ground truth makes the solver calls and kernel
\* fits of the run without, stops at the same outer iteration and returns
\* the same estimates and J, r, g traces; the trace err_ai_s (err_hrf)
\* exists when, and only when, ai_s (hrf) is supplied.
C10_GroundTruthDiagnosticOnly ==
    (InBD /\ run.verbose = 0 /\ ~run.plotting) =>
        /\ Optim(run) = Optim(ref)
        /\ run.pc \notin {"start", "raised"} =>
            /\ Len(run.d_err_ai_s) = IF run.ai_s THEN Len(run.d_J) ELSE 0
            /\ Len(run.d_err_hrf) = IF run.hrf THEN Len(run.d_J) ELSE 0
            /\ ref.d_err_ai_s = <<>> /\ ref.d_err_hrf = <<>>

C10_Witness ==
    /\ InBD
    /\ run.ai_s /\ ~run.hrf
    /\ run.pc = "done"
    /\ run.iters >= 2
    /\ Len(run.d_err_ai_s) = run.iters + 2
    /\ run.d_J = ref.d_J

IsPrefix(s, t) == Len(s) <= Len(t) /\ SubSeq(t, 1, Len(s)) = s

\* at most one entry is added to a trace, and none is changed or removed
Grows(s, t) == IsPrefix(s, t) /\ Len(t) <= Len(s) + 1

\* C11: the traces d['J'], d['r'] and d['g'] of blind_deconvolution and bd
\* are append-only with one entry per outer iteration: no entry is changed
\* or removed, an outer iteration adds one entry to each, and a run that
\* returns after k outer iterations has k + 2 entries in each (the initial
\* one, k of the iterations, one of the last deconvolution).
C11_TraceAppendOnly ==
    /\ []( ((InBD \/ InBd) /\ run.pc \notin {"start", "raised"}) =>
            LET n == run.iters + (IF run.pc = "done" THEN 2 ELSE 1)
            IN  Len(run.d_J) = n /\ Len(run.d_r) = n /\ Len(run.d_g) = n )
    /\ [][ (InBD \/ InBd) =>
            /\ Grows(run.d_J, run'.d_J)
            /\ Grows(run.d_r, run'.d_r)
            /\ Grows(run.d_g, run'.d_g)
            /\ run'.iters = run.iters + 1 =>
                    Len(run'.d_J) = Len(run.d_J) + 1 ]_vars

C11_Witness ==
    /\ InBD
    /\ run.pc = "done"
    /\ run.iters = 3
    /\ Len(run.d_J) = 5 /\ Len(run.d_r) = 5 /\ Len(run.d_g) = 5

\* C12: with early_stopping=False, blind_deconvolution and bd run nb_iter
\* outer iterations, no fewer, and with lbda=None every inner sub-loop runs
\* its whole budget of rounds with no early break.
C12_NoEarlyStopWhenOff ==
    ((InBD \/ InBd) /\ ~args.early_stopping) =>
        /\ run.tests = <<>> /\ ~run.stopped
        /\ run.exc # "IndexError"
        /\ run.pc \in {"last", "done"} => run.iters = args.nb_iter
        /\ run.pc \in {"loop", "inner", "long", "fit"} => run.iters < args.nb_iter
        /\ run.pc = "inner" => run.rounds < run.nb_iter_deconv
        /\ (run.pc \in {"long", "fit"} /\ args.no_lbda) =>
                run.rounds = run.nb_iter_deconv
        /\ (run.pc \in {"last", "done"} /\ args.no_lbda /\ run.iters > 0) =>
                run.rounds = run.nb_iter_deconv

C12_Witness ==
    /\ InBD /\ args.no_lbda /\ ~args.early_stopping
    /\ run.pc = "done"
    /\ run.iters = 1 /\ args.nb_iter = 1
    /\ run.rounds = NbIterDeconv

\* the last n entries of a trace
LastN(s, n) == IF n >= Len(s) THEN s ELSE SubSeq(s, Len(s) - n + 1, Len(s))

\* C13: the outer early-stopping test is windowed: its decision is the one
\* the comparison of the two half means gives on the last wind joint-cost
\* values, whatever the entries recorded before them (the initial one
\* included).
C13_OuterTestWindowed ==
    ((InBD \/ InBd) /\ args.early_stopping /\ JustTested(run)) =>
        run.stopped = OuterStop(LastN(run.d_J, args.wind), args.wind, args.tol)

\* 0.5 * sum((predicted - observed)^2) + lbda * ||innovation||_1
PenalisedCost(predicted, observed, innovation, lbda) ==
    NumAdd(NumMul(Frac(1, 2), Int2Num(SumSq(predicted, observed))),
           NumMul(lbda, Int2Num(L1(innovation))))

\* C14: the joint cost recorded for an outer iteration of blind_deconvolution
\* and bd is 0.5 * sum((predicted - observed)^2) + lbda * ||innovation||_1,
\* with predicted the convolution of the re-fitted kernel and the integrated
\* signal, and lbda the weight of the iteration.
C14_JointCostValue ==
    ( /\ InBD \/ InBd
      /\ run.pc \in {"loop", "last"} /\ run.iters > 0
      /\ ~IsZero(run.j_0) ) =>
        run.d_J[Len(run.d_J)] =
            PenalisedCost(Conv(run.est_hrf, run.est_ai_s), args.noisy_ar_s,
                          run.est_i_s, run.lbda)

\* the objective a forward-backward solver call descends, for the gradient
\* H^T (H x - y) and the proximity operator of lbda * ||.||_1:
\* 0.5 * ||H x - y||^2 + lbda * ||x||_1, with H = Conv(hrf) o Integ
SolverObjective(hrf, x, y, lbda) ==
    PenalisedCost(Conv(hrf, Integ(x)), y, x, lbda)

\* hrf_fit_err, squared and without its factor: ||ar_s - H.op(ai_s)||^2
FitErrSq(hrf, ai_s, ar_s) == SumSq(Conv(hrf, ai_s), ar_s)

\* each solver call of the log ends at an objective not above the one of
\* its starting point, each kernel fit at a fit cost not above the one of
\* its starting parameters
SubStepsDescend(w, y) ==
    \A i \in 1..Len(w) :
        /\ w[i].op = "solve" =>
            ~Less(SolverObjective(w[i].hrf, w[i].v0, y, w[i].lbda),
                  SolverObjective(w[i].hrf, w[i].out, y, w[i].lbda))
        /\ w[i].op = "fit" =>
            FitErrSq(HrfFunc(w[i].out[1]), w[i].v0, y)
                <= FitErrSq(HrfFunc(w[i].nb_iter), w[i].v0, y)

NonIncreasing(J) == \A i \in 1..(Len(J) - 1) : ~Less(J[i], J[i + 1])

\* C15: with lbda supplied, the joint-cost values recorded after the outer
\* iterations are non-increasing when no solver call of State A increases
\* its objective from its starting point and no kernel fit of State B
\* increases its fit cost from its starting parameters.
C15_JointCostNonIncreasing ==
    ( /\ InBD /\ ~args.no_lbda
      /\ run.pc \in {"loop", "fit", "last"}
      /\ SubStepsDescend(Work(run.calls), args.noisy_ar_s) ) =>
        NonIncreasing(run.d_J)

InBounds(p, bounds) == bounds.none \/ (bounds.lo <= p /\ p <= bounds.hi)

\* C16: with the default kernel model, every kernel blind_deconvolution
\* works with or returns (in the first State A, in a later one, in the last
\* deconvolution, as est_hrf) is the kernel of a parameter inside the bounds
\* [MIN_DELTA + 0.1, MAX_DELTA - 0.1].
C16_KernelWithinBounds ==
    (InBD /\ ModelDefault(args) /\ run.pc \notin {"start", "raised"}) =>
        /\ InBounds(run.est_hrf_params, DefaultBounds)
        /\ run.est_hrf = HrfFunc(run.est_hrf_params)
        /\ \A i \in 1..Len(run.calls) :
            run.calls[i].op = "hrf_func" =>
                InBounds(run.calls[i].out[1], DefaultBounds)

-----------------------------------------------------------------------------
(* utils.Tracker: the callback that records a tracked function.  The       *)
(* tracker under study is `run`, `ref` is a tracker with verbose = 0 that  *)
(* receives the same calls.                                                *)

\* the largest number of calls of a tracker
MaxCalls == 4

\* the points a tracker is called with
TrackedPoints == {-1, 0, 2}

\* the tracked functions f(x, c): x^2 + c and c * x
TrackedFuncs == {"square", "linear"}

\* self.f(*([x] + self.args))
TrackedValue(f, x, c) == IF f = "square" THEN x * x + c ELSE c * x

\* Tracker.__init__; xs is the history of the points passed, printed the
\* number of messages written
Tracker_New(f, c, verbose) ==
    [J |-> <<>>, f |-> f, args |-> c, verbose |-> verbose, idx |-> 0,
     xs |-> <<>>, printed |-> 0]

Tracker_Call_Replace(t, x) ==
    [t EXCEPT
        !.idx = @ + 1,
        !.printed = IF t.verbose > 2 THEN @ + 1 ELSE @,
        !.J = <<TrackedValue(t.f, x, t.args)>>,
        !.xs = Append(@, x)]

\* Tracker.__call__
Tracker_Call(t, x) ==
    [t EXCEPT
        !.idx = @ + 1,
        !.printed = IF t.verbose > 2 THEN @ + 1 ELSE @,
        !.J = Append(@, TrackedValue(t.f, x, t.args)),
        !.xs = Append(@, x)]

TrackerInit ==
    /\ args = [func |-> "Tracker"]
    /\ \E f \in TrackedFuncs, c \in {1, 3}, v \in 0..3 :
        /\ run = Tracker_New(f, c, v)
        /\ ref = Tracker_New(f, c, 0)

TrackerCall ==
    /\ args.func = "Tracker"
    /\ run.idx < MaxCalls
    /\ \E x \in TrackedPoints :
        /\ run' = Tracker_Call(run, x)
        /\ ref' = Tracker_Call(ref, x)
    /\ UNCHANGED args

TrackerNext == TrackerCall

TrackerSpec == TrackerInit /\ [][TrackerNext]_vars

\* C17: a call of a Tracker appends one value, f at the point passed with the
\* fixed extra arguments, to J and adds one to idx: after n calls
\* len(J) = idx = n, the entries appended before are unchanged, and verbose
\* does not change what is appended.
C17_TrackerAccumulates ==
    /\ []( /\ Len(run.J) = run.idx /\ Len(run.xs) = run.idx
           /\ \A i \in 1..Len(run.J) :
                run.J[i] = TrackedValue(run.f, run.xs[i], run.args)
           /\ run.J = ref.J /\ run.idx = ref.idx )
    /\ [][ /\ run'.idx = run.idx + 1
           /\ Len(run'.J) = Len(run.J) + 1
           /\ IsPrefix(run.J, run'.J) ]_vars

C17_Witness ==
    /\ args.func = "Tracker"
    /\ run.verbose = 3 /\ run.printed = 3
    /\ run.idx = 3 /\ Len(run.J) = 3
    /\ run.J[1] # run.J[3]

\* the largest magnitude of an array of numbers is 1, or the array is 0
SupNormOne(s) ==
    /\ \A i \in 1..Len(s) : ~Less(One, NumAbs(s[i]))
    /\ \/ \E i \in 1..Len(s) : NumAbs(s[i]) = One
       \/ \A i \in 1..Len(s) : IsZero(s[i])

\* C18: the inf_norm-normalised arrays of blind_deconvolution go to the plot
\* only: a run with plotting=True passes the signals and the kernel of the
\* run with plotting=False, un-normalised, to every solver call, kernel fit
\* and cost, and returns the same estimates and traces.
C18_NormalisationForPlotOnly ==
    (InBD /\ run.verbose = 0 /\ ~run.ai_s /\ ~run.hrf) =>
        /\ [run EXCEPT !.plotting = FALSE, !.plots = 0, !.shown = <<>>] = ref
        /\ ref.plots = 0 /\ ref.shown = <<>>
        /\ (run.plotting /\ run.pc \in {"last", "done"}) =>
                run.plots = run.iters
        /\ \A i \in 1..Len(run.shown) : SupNormOne(run.shown[i])

C18_Witness ==
    /\ InBD /\ run.plotting
    /\ run.pc = "done"
    /\ run.plots = 2
    /\ run.v0 = <<0, 0>>
    /\ \E i \in 1..Len(run.calls) : run.calls[i].v0 = <<2, -1>>
    /\ run.shown[1] = <<Frac(1, 2), One>>
    /\ run.shown[4] = <<One, Frac(-1, 2)>>

(***************************************************************************)
(* utils.mad and utils.mad_daub_noise_est, applied to a signal x and to    *)
(* the scaled signal c.x.  Signals are integer sequences; run holds the    *)
(* call on c.x and ref the call on x.                                      *)
(***************************************************************************)

MaxLen == 3

SignalValues == {-2, 0, 1, 3}

Scales == {1, 2, 3}

Signals == UNION {[1..n -> SignalValues] : n \in 1..MaxLen}

Scale(c, x) == [i \in 1..Len(x) |-> c * x[i]]

RECURSIVE Insert(_, _)
Insert(v, s) ==
    IF s = <<>> THEN <<v>>
    ELSE IF v <= Head(s) THEN <<v>> \o s
    ELSE <<Head(s)>> \o Insert(v, Tail(s))

RECURSIVE Sorted(_)
Sorted(s) == IF s = <<>> THEN <<>> ELSE Insert(Head(s), Sorted(Tail(s)))

\* twice np.median(s) of a non-empty array: the middle value of the sorted
\* array, the mean of the two middle values when the length is even
Median2(s) ==
    LET t == Sorted(s)
        n == Len(s)
    IN  IF n % 2 = 1 THEN 2 * t[(n + 1) \div 2]
        ELSE t[n \div 2] + t[n \div 2 + 1]

\* the default c of mad and mad_daub_noise_est, 0.6744
DefaultC == Frac(843, 1250)

Mad_FixedCentre(x, c) ==
    LET dev2 == [i \in 1..Len(x) |-> Abs(2 * x[i] - 2)]
    IN  NumDiv(Frac(Median2(dev2), 4), c)

\* utils.mad: np.median(np.abs(x - np.median(x))) / c
Mad(x, c) ==
    LET m2   == Median2(x)
        dev2 == [i \in 1..Len(x) |-> Abs(2 * x[i] - m2)]
    IN  NumDiv(Frac(Median2(dev2), 4), c)

\* the db3 decomposition high-pass filter of pywt, in hundredths
Db3DecHi == <<-33, 81, -46, -14, 9, 3>>

FilterUnit == 100

\* the symmetric (half-sample) extension of x at index i
Extended(x, i) ==
    LET n == Len(x)
        j == (i - 1) % (2 * n)
    IN  IF j < n THEN x[j + 1] ELSE x[2 * n - j]

\* pywt.wavedec(x, db3, level=1)[1]: the detail coefficients, the signal
\* extended, filtered and down-sampled by 2; in hundredths
DetailCoeffs(x) ==
    [k \in 1..((Len(x) + Len(Db3DecHi) - 1) \div 2) |->
        LET Tap[j \in 0..Len(Db3DecHi)] ==
                IF j = 0 THEN 0
                ELSE Tap[j - 1] + Db3DecHi[j] * Extended(x, 2 * k - (j - 1))
        IN  Tap[Len(Db3DecHi)]]

\* utils.mad_daub_noise_est: mad of the level-1 detail coefficients; when
\* wavedec raises ValueError at level 1, mad of wavedec(x, level=0), the
\* list that holds the signal itself
MadDaubNoiseEst(x, c, level1_fails) ==
    IF level1_fails THEN Mad(x, c)
    ELSE NumDiv(Mad(DetailCoeffs(x), c), Int2Num(FilterUnit))

NoiseInit ==
    /\ \E f \in {"mad", "mad_daub_noise_est"}, x \in Signals, c \in Scales,
          fails \in BOOLEAN :
            /\ f = "mad" => ~fails
            /\ args = [func |-> f, x |-> x, scale |-> c,
                       level1_fails |-> fails]
    /\ run = [pc |-> "start", out |-> NaN]
    /\ ref = [pc |-> "start", out |-> NaN]

MadCall ==
    /\ args.func = "mad"
    /\ run.pc = "start"
    /\ run' = [pc |-> "done", out |-> Mad(Scale(args.scale, args.x), DefaultC)]
    /\ ref' = [pc |-> "done", out |-> Mad(args.x, DefaultC)]
    /\ UNCHANGED args

NoiseEstCall ==
    /\ args.func = "mad_daub_noise_est"
    /\ run.pc = "start"
    /\ run' = [pc |-> "done",
               out |-> MadDaubNoiseEst(Scale(args.scale, args.x), DefaultC,
                                       args.level1_fails)]
    /\ ref' = [pc |-> "done",
               out |-> MadDaubNoiseEst(args.x, DefaultC, args.level1_fails)]
    /\ UNCHANGED args

NoiseNext == MadCall \/ NoiseEstCall

NoiseSpec == NoiseInit /\ [][NoiseNext]_vars

\* C19: the noise-level estimator is positively homogeneous: for every
\* signal x and scalar c > 0, mad_daub_noise_est(c.x) = c.mad_daub_noise_est(x)
\* and mad(c.x) = c.mad(x).
C19_PositivelyHomogeneous ==
    run.pc = "done" =>
        /\ args.scale > 0
        /\ IsFinite(ref.out) /\ ~Less(ref.out, Zero)
        /\ run.out = NumMul(Int2Num(args.scale), ref.out)

C19_Witness ==
    /\ args.func = "mad_daub_noise_est"
    /\ ~args.level1_fails
    /\ args.scale = 3
    /\ run.pc = "done"
    /\ Less(Zero, ref.out)
    /\ Less(ref.out, run.out)

\* the steps that update alpha: a round of the inner sub-loop of
\* blind_deconvolution, an iteration of deconvolution
AlphaUpdate == At("BDInner") \/ At("DecIter")

\* C20: the window of alpha values is bounded: after every alpha update in
\* deconvolution and in blind_deconvolution it holds at most wind values,
\* the most recently computed ones in order of computation (the oldest is
\* dropped first); no other step touches the window.
C20_AlphaWindowBounded ==
    /\ []((InBD \/ InDec) => Len(run.d_l_alpha) <= args.wind)
    /\ [][AlphaUpdate =>
            /\ run'.d_l_alpha =
                    LastN(Append(run.d_l_alpha, run'.alpha), args.wind)
            /\ run'.d_l_alpha[Len(run'.d_l_alpha)] = run'.alpha
            /\ Len(run.d_l_alpha) = args.wind =>
                    \A i \in 1..(args.wind - 1) :
                        run'.d_l_alpha[i] = run.d_l_alpha[i + 1]]_vars
    /\ [][((InBD \/ InDec) /\ ~AlphaUpdate /\ run.pc # "start") =>
            run'.d_l_alpha = run.d_l_alpha]_vars

C20_Witness ==
    /\ InDec
    /\ args.wind = 2
    /\ run.iters = 3
    /\ Len(run.d_l_alpha) = 2
    /\ run.d_l_alpha[2] = run.alpha
    /\ run.d_l_alpha[1] # run.d_l_alpha[2]

\* the inner early-stopping test has just been evaluated, on the window
\* run.d_l_alpha (the inner index of the round is run.rounds - 1)
InnerJustTested(r) ==
    /\ InBD /\ args.no_lbda
    /\ r.pc \in {"inner", "long"}
    /\ InnerTested(args.early_stopping, r.rounds - 1)

\* C21: the inner early-stopping test on alpha is evaluated only once wind
\* alpha values are in the window, so that the older half and the newer half
\* it takes the means of are both non-empty, for every wind and every outer
\* iteration.
C21_InnerTestOnFullWindow ==
    InnerJustTested(run) =>
        /\ Len(run.d_l_alpha) >= args.wind
        /\ SliceOld(run.d_l_alpha, args.wind \div 2) # <<>>
        /\ SliceNew(run.d_l_alpha, args.wind \div 2) # <<>>

\* C22: in auto-lambda mode the inner sub-loop of blind_deconvolution is
\* bounded by the count set at the auto-lambda initialisation
\* (nb_iter_deconv = 50): no outer iteration performs more than 50
\* solver-call / alpha-update rounds before its long solve.
C22_InnerLoopBoundedBy50 ==
    (InBD /\ args.no_lbda) => run.rounds <= NbIterDeconvAuto

\* C23: the signals a driver returns are consistent: the integrated signal
\* is the inclusive prefix sum of the innovation signal, the predicted
\* observed signal is the convolution of the final kernel with the
\* integrated signal, and the innovation signal is the answer of the final
\* solve (the last call of the run, made with the final kernel), for
\* blind_deconvolution, bd and both modes of deconvolution.
C23_ReturnedSignalsConsistent ==
    (run.pc = "done" /\ (InBD \/ InBd \/ InDec)) =>
        LET s == Solves(run.calls)
            final == run.calls[Len(run.calls)]
        IN  /\ run.exc = "none"
            /\ run.est_ai_s = Integ(run.est_i_s)
            /\ run.est_ar_s = Conv(run.est_hrf, run.est_ai_s)
            /\ run.calls # <<>>
            /\ final.op = "solve"
            /\ final.out = run.est_i_s
            /\ final.hrf = run.est_hrf
            /\ final.nb_iter =
                    (IF InDec
                     THEN (IF args.no_lbda THEN 9999 ELSE args.nb_iter)
                     ELSE 10000)
            /\ InDec => run.est_hrf = args.kernel

C23_Witness ==
    /\ InBd
    /\ run.pc = "done"
    /\ run.iters >= 1
    /\ LET s == Solves(run.calls)
       IN  /\ Len(s) >= 2
           /\ s[Len(s) - 1].out # s[Len(s)].out
           /\ s[Len(s)].out = run.est_i_s
    /\ run.est_i_s = <<2, -1>>
    /\ run.est_ai_s = <<2, 1>>

(***************************************************************************)
(* data.gen_ai_s and data.gen_i_s: the retry loop that draws a signal      *)
(* until one passes the acceptance checks.  The fine grid has GridN        *)
(* samples (N = int(dur * 60 / dt)) and is sub-sampled every Decim samples *)
(* (int(tr / dt)); the random draws are nondeterministic choices.          *)
(***************************************************************************)

GridN == 8

Decim == 2

\* the largest nb_try
MaxTry == 2

EventCounts == {1, 2}

\* the block durations an attempt can use, after astype(int): at least 1
\* when a draw was kept, 0 when the nb_try_duration draws were all refused
\* and the last one, below 1, is used
Durations == {0, 1, 2}

\* the amplitudes an attempt can use, in tenths: at least 0 when a draw was
\* kept, negative when the nb_try_duration draws were all refused
Amplitudes == {-4, 3, 10}

\* np.zeros(N), then ai_s[offset:offset+duration] += 1 for each block (a
\* slice is clipped at the end of the array)
PlaceBlocks(offsets, durations) ==
    [i \in 1..GridN |->
        Cardinality({k \in 1..Len(offsets) :
            offsets[k] <= i - 1 /\ i - 1 < offsets[k] + durations[k]})]

\* np.zeros(N), then i_s[offset] += ampl for each event
PlaceSpikes(offsets, ampls) ==
    [i \in 1..GridN |->
        SeqSum([k \in 1..Len(offsets) |->
                    IF offsets[k] = i - 1 THEN ampls[k] ELSE 0])]

\* s[::int(tr/dt)]
Decimate(s) ==
    [k \in 1..((Len(s) + Decim - 1) \div Decim) |-> s[(k - 1) * Decim + 1]]

\* np.append(0, ai_s[1:] - ai_s[:-1])
Innovation(ai_s) ==
    [k \in 1..Len(ai_s) |-> IF k = 1 THEN 0 ELSE ai_s[k] - ai_s[k - 1]]

\* (i_s > 0.5).sum(), the values of i_s being multiples of 1/unit
CountEvents(i_s, unit) ==
    Cardinality({k \in 1..Len(i_s) : 2 * i_s[k] > unit})

\* int(N/2), and center_neighbors, as indices from 1
Center == GridN \div 2 + 1

\* nb_try = 1 if isinstance(r, np.random.RandomState) else nb_try
EffectiveTries(a) == IF a.seeded THEN 1 ELSE a.nb_try

\* lines 164-199: the body of one attempt of gen_ai_s with the draws
\* offsets and durations; ok is FALSE where the code says `continue`
AiSAttempt(a, offsets, durations) ==
    LET placed == PlaceBlocks(offsets, durations)
        spiked == IF a.middle_spike
                  THEN [placed EXCEPT ![Center] = @ + 1] ELSE placed
        overlap == \E i \in 1..GridN : spiked[i] > 1
        full == IF a.overlapping /\ a.unitary_block
                THEN [i \in 1..GridN |-> IF spiked[i] > 1 THEN 1 ELSE spiked[i]]
                ELSE spiked
        crowded == a.middle_spike /\ (full[Center - 1] > 0 \/ full[Center + 1] > 0)
        ai_s == Decimate(full)
        i_s == Innovation(ai_s)
        erased == ~a.overlapping /\ CountEvents(i_s, 1) # a.nb_events
    IN  [ok |-> ~(~a.overlapping /\ overlap) /\ ~crowded /\ ~erased,
         ai_s |-> ai_s, i_s |-> i_s]

\* lines 67-85: the body of one attempt of gen_i_s
ISAttempt(a, offsets, ampls) ==
    LET i_s == Decimate(PlaceSpikes(offsets, ampls))
    IN  [ok |-> CountEvents(i_s, 10) = a.nb_events,
         ai_s |-> <<>>, i_s |-> i_s]

Gen_Try_KeepGoing(a, r, att, offsets, sizes) ==
    [r EXCEPT !.tries = @ + 1,
              !.offsets = offsets, !.sizes = sizes,
              !.pc = IF att.ok /\ r.tries + 1 >= EffectiveTries(a)
                     THEN "returned" ELSE "loop",
              !.ai_s = IF att.ok THEN att.ai_s ELSE @,
              !.i_s = IF att.ok THEN att.i_s ELSE @]

\* one pass of `for _ in range(nb_try)`: return the signal, or continue
Gen_Try(a, r, att, offsets, sizes) ==
    [r EXCEPT !.tries = @ + 1,
              !.offsets = offsets, !.sizes = sizes,
              !.pc = IF att.ok THEN "returned" ELSE "loop",
              !.ai_s = IF att.ok THEN att.ai_s ELSE @,
              !.i_s = IF att.ok THEN att.i_s ELSE @]

\* the arguments of a call (unitary_block is read with overlapping only)
GenArgs ==
    {a \in [func : {"gen_ai_s"}, nb_events : EventCounts, seeded : BOOLEAN,
            nb_try : 0..MaxTry, middle_spike : BOOLEAN,
            overlapping : BOOLEAN, unitary_block : BOOLEAN] :
        a.unitary_block => a.overlapping}
    \cup
    [func : {"gen_i_s"}, nb_events : EventCounts, seeded : BOOLEAN,
     nb_try : 0..MaxTry, middle_spike : {FALSE}, overlapping : {FALSE},
     unitary_block : {FALSE}]

GenInit ==
    /\ args \in GenArgs
    /\ run = [pc |-> "loop", exc |-> "none", tries |-> 0,
              offsets |-> <<>>, sizes |-> <<>>, ai_s |-> <<>>, i_s |-> <<>>]
    /\ ref = [pc |-> "none"]

GenAiSTry ==
    /\ args.func = "gen_ai_s"
    /\ run.pc = "loop" /\ run.tries < EffectiveTries(args)
    /\ \E offsets \in [1..args.nb_events -> 0..(GridN - 1)],
          durations \in [1..args.nb_events -> Durations] :
            run' = Gen_Try(args, run, AiSAttempt(args, offsets, durations),
                           offsets, durations)
    /\ UNCHANGED <<args, ref>>

GenISTry ==
    /\ args.func = "gen_i_s"
    /\ run.pc = "loop" /\ run.tries < EffectiveTries(args)
    /\ \E offsets \in [1..args.nb_events -> 0..(GridN - 1)],
          ampls \in [1..args.nb_events -> Amplitudes] :
            run' = Gen_Try(args, run, ISAttempt(args, offsets, ampls),
                           offsets, ampls)
    /\ UNCHANGED <<args, ref>>

\* the loop ran out of attempts: raise RuntimeError
GenGiveUp ==
    /\ args.func \in {"gen_ai_s", "gen_i_s"}
    /\ run.pc = "loop" /\ run.tries >= EffectiveTries(args)
    /\ run' = [run EXCEPT !.pc = "raised", !.exc = "RuntimeError"]
    /\ UNCHANGED <<args, ref>>

GenNext == GenAiSTry \/ GenISTry \/ GenGiveUp

GenSpec == GenInit /\ [][GenNext]_vars

\* C24: the block signal ai_s that gen_ai_s returns is the inclusive prefix
\* sum of the innovation signal i_s it returns, wherever the blocks are,
\* a block that starts at the first sample included.
C24_BlocksArePrefixSum ==
    (args.func = "gen_ai_s" /\ run.pc = "returned") =>
        run.ai_s = Integ(run.i_s)

\* the acceptance checks of an attempt, stated on the signal the draw gives
Acceptable(a, offsets, sizes) ==
    IF a.func = "gen_i_s"
    THEN CountEvents(Decimate(PlaceSpikes(offsets, sizes)), 10) = a.nb_events
    ELSE LET p == PlaceBlocks(offsets, sizes)
             q == [i \in 1..GridN |->
                    p[i] + (IF a.middle_spike /\ i = Center THEN 1 ELSE 0)]
         IN  /\ a.overlapping \/ \A i \in 1..GridN : q[i] <= 1
             /\ a.middle_spike => q[Center - 1] = 0 /\ q[Center + 1] = 0
             /\ a.overlapping \/
                    CountEvents(Innovation(Decimate(q)), 1) = a.nb_events

\* C25: the retry protocol of gen_ai_s and gen_i_s: at most nb_try attempts
\* (exactly one with an integer seed); the first attempt that passes every
\* acceptance check is returned and nothing is attempted after it; when no
\* attempt passes, RuntimeError is raised; a signal returned in
\* non-overlapping mode has exactly nb_events innovation samples above 0.5
\* and, for gen_ai_s, no block value above 1.
C25_RetryProtocol ==
    /\ [](args.func \in {"gen_ai_s", "gen_i_s"} =>
            /\ run.tries <= EffectiveTries(args)
            /\ args.seeded => run.tries <= 1
            /\ ~args.seeded => run.tries <= args.nb_try
            /\ run.pc \in {"returned", "raised"} /\ args.seeded => run.tries = 1
            /\ run.pc = "returned" =>
                /\ run.exc = "none"
                /\ Acceptable(args, run.offsets, run.sizes)
                /\ ~args.overlapping =>
                    /\ CountEvents(run.i_s,
                            IF args.func = "gen_i_s" THEN 10 ELSE 1)
                                = args.nb_events
                    /\ \A k \in 1..Len(run.ai_s) : run.ai_s[k] <= 1
            /\ run.pc = "raised" =>
                /\ run.exc = "RuntimeError"
                /\ run.tries = EffectiveTries(args)
                /\ run.tries > 0 => ~Acceptable(args, run.offsets, run.sizes)
                /\ run.ai_s = <<>> /\ run.i_s = <<>>
            /\ run.pc = "loop" =>
                /\ run.exc = "none"
                /\ run.tries > 0 => ~Acceptable(args, run.offsets, run.sizes))
    /\ [][args.func \in {"gen_ai_s", "gen_i_s"} =>
            /\ run.pc = "loop"
            /\ run'.tries > run.tries =>
                /\ run'.tries = run.tries + 1
                /\ (run'.pc = "returned") =
                        Acceptable(args, run'.offsets, run'.sizes)
                /\ run'.pc \in {"returned", "loop"}
            /\ run'.tries = run.tries =>
                /\ run'.pc = "raised"
                /\ run.tries = EffectiveTries(args)]_vars

C25_Witness ==
    /\ args.func = "gen_ai_s"
    /\ ~args.seeded /\ ~args.overlapping /\ ~args.middle_spike
    /\ args.nb_events = 2
    /\ run.pc = "returned"
    /\ run.tries = 2
    /\ run.ai_s = <<0, 1, 0, 1>>
    /\ run.i_s = <<0, 1, -1, 1>>

(***************************************************************************)
(* utils.spectral_radius_est.  The operator L is an input: an iterate is   *)
(* known by its norm, which the power step L.adj(L.op(x_old)) / ||x_old||  *)
(* can make any of IterateNorms (0 for an operator that annihilates        *)
(* x_old); dividing by a zero norm gives nan, and nan stays nan.           *)
(***************************************************************************)

\* the largest nb_iter
MaxPower == 3

IterateNorms == {Zero, One, Frac(21, 20), Int2Num(2)}

PowerTols == {Frac(1, 10)}

\* norm_2(x_new) for an x_old of norm n_old
PowerStepNorms(n_old) ==
    IF n_old.k = "nan" \/ IsZero(n_old) THEN {NaN} ELSE IterateNorms

\* np.abs(norm_2(x_new) - norm_2(x_old)) < tol
NormSettled(n_new, n_old, tol) == Less(NumAbs(NumSub(n_new, n_old)), tol)

\* lines 96-98: the first iterate and the loop variables
SR_New(n0) ==
    [pc |-> "loop", exc |-> "none", i |-> 0, x_old |-> n0,
     x_new |-> [bound |-> FALSE, norm |-> NaN, made_at |-> 0],
     stopped |-> FALSE, printed |-> FALSE, norms |-> <<n0>>, out |-> NaN]

\* lines 99-104: one pass of `for i in range(nb_iter)`
SR_Iter(a, r, n_new) ==
    LET settled == NormSettled(n_new, r.x_old, a.tol)
    IN  [r EXCEPT
            !.x_new = [bound |-> TRUE, norm |-> n_new, made_at |-> r.i + 1],
            !.norms = Append(@, n_new),
            !.stopped = settled,
            !.x_old = IF settled THEN @ ELSE n_new,
            !.i = @ + 1,
            !.pc = IF settled \/ r.i + 1 >= a.nb_iter THEN "after" ELSE "loop"]

SR_Return_Previous(a, r) ==
    IF ~r.x_new.bound
    THEN [r EXCEPT !.pc = "raised", !.exc = "UnboundLocalError"]
    ELSE [r EXCEPT !.pc = "done",
                   !.printed = ~r.stopped /\ a.verbose,
                   !.out = r.norms[Len(r.norms) - 1]]

\* lines 105-108: the message, and return norm_2(x_new); x_new is not
\* bound when the loop body never ran
SR_Return(a, r) ==
    IF ~r.x_new.bound
    THEN [r EXCEPT !.pc = "raised", !.exc = "UnboundLocalError"]
    ELSE [r EXCEPT !.pc = "done",
                   !.printed = ~r.stopped /\ a.verbose,
                   !.out = r.x_new.norm]

PowerInit ==
    /\ args \in [func : {"spectral_radius_est"}, nb_iter : 0..MaxPower,
                 tol : PowerTols, verbose : BOOLEAN]
    /\ \E n0 \in IterateNorms \ {Zero} : run = SR_New(n0)
    /\ ref = [pc |-> "none"]

PowerIter ==
    /\ args.func = "spectral_radius_est"
    /\ run.pc = "loop" /\ run.i < args.nb_iter
    /\ \E n_new \in PowerStepNorms(run.x_old) : run' = SR_Iter(args, run, n_new)
    /\ UNCHANGED <<args, ref>>

PowerReturn ==
    /\ args.func = "spectral_radius_est"
    /\ \/ run.pc = "after"
       \/ run.pc = "loop" /\ run.i >= args.nb_iter
    /\ run' = SR_Return(args, run)
    /\ UNCHANGED <<args, ref>>

PowerNext == PowerIter \/ PowerReturn

PowerSpec == PowerInit /\ [][PowerNext]_vars

\* C26: for nb_iter >= 1, spectral_radius_est makes at most nb_iter power
\* iterations, stops at the first one whose norm change is below tol, does
\* not raise when tol is not reached within nb_iter iterations, and returns
\* the norm of the last iterate it computed.
C26_NonConvergenceNotFatal ==
    (args.func = "spectral_radius_est" /\ args.nb_iter >= 1) =>
        LET k == Len(run.norms) - 1
            Settled(j) == NormSettled(run.norms[j + 1], run.norms[j], args.tol)
        IN  /\ run.i = k /\ k <= args.nb_iter
            /\ run.exc = "none" /\ run.pc # "raised"
            /\ \A j \in 1..(k - 1) : ~Settled(j)
            /\ run.pc = "loop" => ~run.stopped /\ (k >= 1 => ~Settled(k))
            /\ run.pc \in {"after", "done"} =>
                /\ k >= 1
                /\ run.stopped = Settled(k)
                /\ ~run.stopped => k = args.nb_iter
                /\ run.x_new.made_at = k
                /\ run.x_new.norm = run.norms[k + 1]
            /\ run.pc = "done" =>
                /\ run.out = run.norms[k + 1]
                /\ run.printed = (~run.stopped /\ args.verbose)

C26_Witness ==
    /\ args.func = "spectral_radius_est"
    /\ args.nb_iter = 3
    /\ run.pc = "done"
    /\ ~run.stopped /\ run.printed
    /\ run.i = 3
    /\ run.norms = <<One, Int2Num(2), One, Int2Num(2)>>
    /\ run.out = Int2Num(2)

\* the early-stopping test of deconvolution has just been evaluated, on
\* the window run.d_l_alpha
DecJustTested(r) ==
    /\ InDec /\ args.no_lbda
    /\ r.pc \in {"loop", "last"}
    /\ r.tests # <<>>
    /\ r.tests[Len(r.tests)] = r.iters - 1

\* C27: deconvolution checks wind first: with wind < 2 it raises ValueError
\* before an operator is built or the solver called, with lbda supplied or
\* None; with wind >= 2 the early-stopping test of the auto-lambda loop is
\* first evaluated at index wind + 1, on a window of exactly wind values
\* whose two halves are non-empty.
C27_WindowValidatedFirst ==
    InDec =>
        /\ (args.wind < 2 /\ run.pc # "start") =>
                /\ run.pc = "raised" /\ run.exc = "ValueError"
                /\ run.calls = <<>> /\ run.est_hrf = <<>> /\ run.v0 = <<>>
                /\ run.iters = 0 /\ run.d_l_alpha = <<>> /\ run.d_J = <<>>
        /\ args.wind >= 2 =>
                /\ run.exc = "none" /\ run.pc # "raised"
                /\ run.tests # <<>> => run.tests[1] = args.wind + 1
                /\ (args.no_lbda /\ args.early_stopping
                        /\ run.iters >= args.wind + 2) =>
                            run.tests # <<>>
                /\ DecJustTested(run) =>
                    /\ Len(run.d_l_alpha) = args.wind
                    /\ SliceOld(run.d_l_alpha, args.wind \div 2) # <<>>
                    /\ SliceNew(run.d_l_alpha, args.wind \div 2) # <<>>
                    /\ Len(SliceOld(run.d_l_alpha, args.wind \div 2))
                        + Len(SliceNew(run.d_l_alpha, args.wind \div 2))
                            = args.wind

C27_Witness ==
    /\ InDec /\ args.no_lbda /\ args.early_stopping
    /\ args.wind = 3
    /\ run.tests = <<4>>
    /\ run.iters = 5
    /\ Len(run.d_l_alpha) = 3
    /\ Len(SliceOld(run.d_l_alpha, 1)) = 2

====
